---------------------------- MODULE Spec2Model ----------------------------
(***************************************************************************)
(* A model of complete_example.py: the Helper class (the element tree of   *)
(* content.xml, its parent map and populate_bookmark), the paragraph       *)
(* insertion block of the main program, the unzip / zip blocks around them *)
(* and the optional conversion step.                                       *)
(*                                                                         *)
(* Element identities are the naturals 1, 2, ...; 0 stands for Python's    *)
(* None where an element is expected.  A path is the sequence of its       *)
(* components.  An exception is named by its Python class and the source   *)
(* line that raises it.                                                    *)
(***************************************************************************)
EXTENDS Integers, Sequences, FiniteSets, TLC

VARIABLES
    tag,            \* Element.tag of every element of helper.tree
    text,           \* Element.text
    attrib,         \* Element.attrib, a set of <<name, value>> pairs
    children,       \* the child sequence of every element
    parent_map,     \* Helper.parent_map
    last,           \* history: the last edit made, its arguments and outcome
    pc,             \* the main program's position
    exc,            \* the exception that ended the run, or NoExc
    tempdir_exists, \* whether the TemporaryDirectory is on disk
    fs,             \* the files under tempdir: relative path -> data
    input_odt,      \* the file input.odt
    output_odt,     \* the file output.odt
    to_walk,        \* the files os.walk has still to yield
    dirpath,        \* the directory os.walk is yielding the files of
    stale_lookup,   \* history: parent_map was read after parent.insert
    output_pdf      \* whether the converter has produced output.pdf

treeVars == <<tag, text, attrib, children>>
runVars == <<pc, exc, tempdir_exists, fs, input_odt, output_odt, to_walk, dirpath,
             output_pdf>>
vars == <<tag, text, attrib, children, parent_map, last, stale_lookup, pc, exc,
          tempdir_exists, fs, input_odt, output_odt, to_walk, dirpath,
          output_pdf>>

---------------------------------------------------------------------------
(* Bounds of the model. *)

\* The largest number of elements of a document that is loaded.
MaxNodes == 5
\* The largest number of paragraph insertions in a sequence of edits.
MaxInserts == 2

---------------------------------------------------------------------------
(* Values. *)

None == 0
NoExc == "None"
NoText == "None"
root == 1

BookmarkStart == "{text}bookmark-start"
NameAttr == "{text}name"
Names == {"fox_type_placeholder", "dog_type_placeholder"}
Contents == {"quick brown", "lazy"}
ParagraphText == "No one expects the Spanish Inquisition!"

Range(s) == {s[i] : i \in DOMAIN s}

Max(S) == CHOOSE m \in S : \A k \in S : k <= m

\* The elements of the tree: those that carry a tag.
Nodes == DOMAIN tag

---------------------------------------------------------------------------
(* Files and archives. *)

NoDoc == [tag |-> <<>>, text |-> <<>>, attrib |-> <<>>, children |-> <<>>]

\* The contents of a file: bytes, and for well-formed XML the document the
\* bytes spell.
Bytes(b) == [bytes |-> b, doc |-> NoDoc]
Xml(d) == [bytes |-> "xml", doc |-> d]
NoData == Bytes("")

\* The directory tempfile.TemporaryDirectory() makes.
tempdir == <<"tmp", "tmpdir">>

NoFiles == [f \in {} |-> NoData]

\* os.path.join(a, name).
Join(a, name) == Append(a, name)

\* os.path.join(a, b) for a relative path b of several components.
JoinPath(a, b) == a \o b

\* os.path.relpath(path, start) for a path under start.
RelPath(path, start) == SubSeq(path, Len(start) + 1, Len(path))

\* The directory and the file name of a path.
DirName(path) == SubSeq(path, 1, Len(path) - 1)
BaseName(path) == path[Len(path)]

\* An archive that does not exist.
NoOutput == [exists |-> FALSE, open |-> FALSE, entries |-> <<>>]

\* One entry of an archive.
Entry(name, data, compress_type) ==
    [name |-> name, data |-> data, compress_type |-> compress_type]

---------------------------------------------------------------------------
(* The documents content.xml may hold. *)

\* What an element of a document is: a bookmark-start with one of the two
\* names, or any other element.
Kinds == {"fox_type_placeholder", "dog_type_placeholder", "plain"}

RECURSIVE AncestorsOrSelf(_, _)
AncestorsOrSelf(p, i) ==
    IF i = root THEN {root} ELSE {i} \cup AncestorsOrSelf(p, p[i])

\* The shapes of the ordered trees of n elements, elements numbered in
\* document order: each element's parent is the one before it or one of that
\* one's ancestors.
TreeShapes(n) ==
    {p \in [2..n -> 1..n] :
        \A i \in 2..n : p[i] < i /\ p[i] \in AncestorsOrSelf(p, i - 1)}

RECURSIVE SortedSeq(_)
SortedSeq(S) ==
    IF S = {} THEN <<>>
    ELSE LET m == CHOOSE x \in S : \A y \in S : x <= y
         IN <<m>> \o SortedSeq(S \ {m})

DocChildren(n, p) == [i \in 1..n |-> SortedSeq({j \in 2..n : p[j] = i})]

DocTag(n, p, k) ==
    [i \in 1..n |->
        IF i = root THEN "{office}document-content"
        ELSE IF k[i] # "plain" THEN BookmarkStart
        ELSE IF \E j \in 2..n : p[j] = i THEN "{text}p" ELSE "{text}s"]

DocText(n, p, k) ==
    [i \in 1..n |->
        IF i # root /\ k[i] = "plain" /\ (\E j \in 2..n : p[j] = i)
        THEN "The " ELSE NoText]

DocAttrib(n, p, k) ==
    [i \in 1..n |->
        IF i = root THEN {<<"{office}version", "1.2">>}
        ELSE IF k[i] # "plain" THEN {<<NameAttr, k[i]>>}
        ELSE IF \E j \in 2..n : p[j] = i
             THEN {<<"{text}style-name", "Standard">>}
             ELSE {}]

Doc(n, p, k) ==
    [tag |-> DocTag(n, p, k), text |-> DocText(n, p, k),
     attrib |-> DocAttrib(n, p, k), children |-> DocChildren(n, p)]

\* Every well-formed document of at most MaxNodes elements.
Documents ==
    {Doc(n, p, k) : <<n, p, k>> \in
        UNION {{<<n, p, k>> : p \in TreeShapes(n), k \in [2..n -> Kinds]}
               : n \in 1..MaxNodes}}

---------------------------------------------------------------------------
(* The element tree. *)

RECURSIVE Concat(_)
Concat(ss) == IF ss = <<>> THEN <<>> ELSE Head(ss) \o Concat(Tail(ss))

\* Element.iter() (ElementTree.getiterator): n and its descendants in
\* document order.
RECURSIVE Iter(_, _)
Iter(ch, n) == <<n>> \o Concat([i \in DOMAIN ch[n] |-> Iter(ch, ch[n][i])])

\* The position of element n in sequence s, 0 when it is not in it.
IndexOf(s, n) ==
    IF \E i \in DOMAIN s : s[i] = n
    THEN CHOOSE i \in DOMAIN s : s[i] = n /\ \A j \in 1..(i - 1) : s[j] # n
    ELSE 0

\* The one element of a set of one element.
The(S) == CHOOSE x \in S : TRUE

\* The first element of the sequence order that is in S, None when none is.
FirstOf(order, S) ==
    IF \E i \in DOMAIN order : order[i] \in S
    THEN order[CHOOSE i \in DOMAIN order :
                  order[i] \in S /\ \A j \in 1..(i - 1) : order[j] \notin S]
    ELSE None

\* root.find('.//text:bookmark-start...') for a path that the elements of S
\* match: the first descendant of the root, in document order, that is in
\* S; None when there is none.  (The document order is computed once.)
FindFirst(S) ==
    The({FirstOf(order, S) : order \in {Tail(Iter(children, root))}})

IsBookmarkStart(n) == tag[n] = BookmarkStart

\* The test of line 80 without its [@text:name=...] part.
IsBookmarkStartNamed_AnyName(n, name) == tag[n] = BookmarkStart

\* The test of line 80.
IsBookmarkStartNamed(n, name) ==
    IsBookmarkStart(n) /\ <<NameAttr, name>> \in attrib[n]

\* The dict of (child, parent) pairs for the parents in the sequence order
\* and their children: a later pair replaces an earlier one of the same
\* child.
ParentMapOver(ch, order) ==
    [c \in UNION {Range(ch[order[i]]) : i \in DOMAIN order} |->
        order[Max({i \in DOMAIN order : c \in Range(ch[order[i]])})]]

\* BuildParentMap over the children of the root only, as "for parent in
\* self.root" would build it.
BuildParentMap_RootChildren(ch) ==
    The({ParentMapOver(ch, order) : order \in {ch[root]}})

\* The dict built at lines 62-63: every child of every element that
\* getiterator() yields, to its parent.
BuildParentMap(ch) ==
    The({ParentMapOver(ch, order) : order \in {Iter(ch, root)}})

\* LoopIndex counted from 0, as the loop counts: one less than the place.
LoopIndex_FromZero(s, n) ==
    IF IndexOf(s, n) # 0 THEN IndexOf(s, n) - 1 ELSE Len(s) - 1

\* The value of i after the loop "for i, child in enumerate(s): if child is
\* n: break", counted from 1: the place of n, or of the last element when n
\* is not in s; 0 when s is empty and the loop binds no i.
LoopIndex(s, n) == IF IndexOf(s, n) # 0 THEN IndexOf(s, n) ELSE Len(s)

\* Whether an element has been inserted since parent_map was built.
Mutated == Cardinality(Nodes) > Cardinality(DOMAIN parent_map) + 1

---------------------------------------------------------------------------
(* Helper.populate_bookmark, lines 65-93. *)

NoEdit == [op |-> "none", name |-> "", contents |-> "", exc |-> NoExc,
           node |-> None]

\* An edit that raises: the tree is as it was.
Raise(op, name, contents, e) ==
    /\ last' = [op |-> op, name |-> name, contents |-> contents, exc |-> e,
                node |-> None]
    /\ UNCHANGED treeVars

\* Retag that also empties the element, as Element.clear() would.
Retag_Clearing(next_sibling, contents) ==
    /\ tag' = [tag EXCEPT ![next_sibling] = "text:span"]
    /\ text' = [text EXCEPT ![next_sibling] = contents]
    /\ attrib' = [attrib EXCEPT ![next_sibling] = {}]
    /\ UNCHANGED children

\* Lines 92-93: the element becomes a span holding contents.
Retag(next_sibling, contents) ==
    /\ tag' = [tag EXCEPT ![next_sibling] = "text:span"]
    /\ text' = [text EXCEPT ![next_sibling] = contents]
    /\ UNCHANGED <<attrib, children>>

\* Each line's value is bound once, as the assignment binds it.
populate_bookmark(name, contents) ==
    \E bookmark_start \in
            {FindFirst({n \in Nodes : IsBookmarkStartNamed(n, name)})} :
       /\ stale_lookup' = (stale_lookup \/ Mutated)
       /\ UNCHANGED parent_map
       /\ IF bookmark_start \notin DOMAIN parent_map
          THEN Raise("populate", name, contents, "KeyError@84")
          ELSE \E bookmark_parent \in {parent_map[bookmark_start]} :
               \E i \in {LoopIndex(children[bookmark_parent], bookmark_start)} :
                  IF i = 0
                  THEN Raise("populate", name, contents,
                             "UnboundLocalError@90")
                  ELSE IF i + 1 > Len(children[bookmark_parent])
                  THEN Raise("populate", name, contents, "IndexError@90")
                  ELSE /\ Retag(children[bookmark_parent][i + 1], contents)
                       /\ last' = [op |-> "populate", name |-> name,
                                   contents |-> contents, exc |-> NoExc,
                                   node |-> children[bookmark_parent][i + 1]]

---------------------------------------------------------------------------
(* The paragraph insertion of the main program, lines 113-123. *)

\* ListInsert one place early, as parent.insert(i, ...) would.
ListInsert_Before(s, i, x) ==
    SubSeq(s, 1, i - 1) \o <<x>> \o SubSeq(s, i, Len(s))

\* list.insert(i, x) with i counted from 0 and 0 <= i: x goes before the
\* element at index i, or at the end.
ListInsert(s, i, x) ==
    IF i >= Len(s) THEN Append(s, x)
    ELSE SubSeq(s, 1, i) \o <<x>> \o SubSeq(s, i + 1, Len(s))

\* Lines 116-117 and 123: a new text:p with a copy of the paragraph's
\* attributes and no children goes into parent after place i (from 1).
InsertNew(parent, i, paragraph) ==
    \E new_paragraph \in {Max(Nodes) + 1} :
    LET all == Nodes \cup {new_paragraph}
    IN /\ tag' = [n \in all |-> IF n = new_paragraph THEN "text:p" ELSE tag[n]]
       /\ text' = [n \in all |->
                      IF n = new_paragraph THEN ParagraphText ELSE text[n]]
       /\ attrib' = [n \in all |->
                        IF n = new_paragraph THEN attrib[paragraph]
                        ELSE attrib[n]]
       /\ children' = [n \in all |->
                          IF n = new_paragraph THEN <<>>
                          ELSE IF n = parent
                          THEN ListInsert(children[parent], i, new_paragraph)
                          ELSE children[n]]
       /\ last' = [op |-> "insert", name |-> "", contents |-> ParagraphText,
                   exc |-> NoExc, node |-> new_paragraph]

insert_paragraph ==
    \E bookmark \in {FindFirst({n \in Nodes : IsBookmarkStart(n)})} :
       /\ stale_lookup' = (stale_lookup \/ Mutated)
       /\ UNCHANGED parent_map
       /\ IF bookmark \notin DOMAIN parent_map
          THEN Raise("insert", "", ParagraphText, "KeyError@115")
          ELSE \E paragraph \in {parent_map[bookmark]} :
                  IF paragraph \notin DOMAIN parent_map
                  THEN Raise("insert", "", ParagraphText, "KeyError@118")
                  ELSE \E parent \in {parent_map[paragraph]} :
                       \E i \in {LoopIndex(children[parent], paragraph)} :
                          IF i = 0
                          THEN Raise("insert", "", ParagraphText,
                                     "NameError@123")
                          ELSE InsertNew(parent, i, paragraph)

---------------------------------------------------------------------------
(* The inputs of the main program. *)

\* ZipFile.extractall(dest): every member becomes a file under dest, a
\* later member of the same name replacing an earlier one.
ExtractAll(entries, dest) ==
    [f \in {JoinPath(dest, entries[i].name) : i \in DOMAIN entries} |->
        entries[Max({i \in DOMAIN entries :
                        JoinPath(dest, entries[i].name) = f})].data]

MimetypeBytes == Bytes("application/vnd.oasis.opendocument.text")

\* The settings of PATH_TO_EXECUTABLE of lines 31-34, and the one of them
\* that is an executable of this host.
ExecutableSettings ==
    {"None", "/usr/bin/soffice", "C:/Program Files/Office/program/soffice"}
Installed == {"/usr/bin/soffice"}

\* What a converter that starts may do: convert, exit with a failure status,
\* or do nothing and exit (another instance is running, line 156).
ConverterOutcomes == {"converted", "failure status", "silent no-op"}

\* The members of an input.odt other than content.xml.
OtherEntries(with_mimetype) ==
    (IF with_mimetype
     THEN <<Entry(<<"mimetype">>, MimetypeBytes, "ZIP_STORED")>> ELSE <<>>)
    \o <<Entry(<<"Pictures", "a.png">>, Bytes("png"), "ZIP_DEFLATED")>>

\* The files input.odt may be: absent, not a zip file, or an archive with or
\* without mimetype whose content.xml is absent, malformed or a document.
InputFiles ==
    {[state |-> "missing", entries |-> <<>>],
     [state |-> "malformed", entries |-> <<>>]}
    \cup {[state |-> "ok", entries |-> OtherEntries(m)] : m \in BOOLEAN}
    \cup {[state |-> "ok", entries |-> OtherEntries(m) \o
              <<Entry(<<"content.xml">>, c, "ZIP_DEFLATED")>>] :
           m \in BOOLEAN,
           c \in {Bytes("<malformed")} \cup {Xml(d) : d \in Documents}}

---------------------------------------------------------------------------
(* Sequences of edits on a loaded document: any caller of the Helper.       *)

\* A Helper as line 106 leaves it, for any document.
InitEdit ==
    /\ \E d \in Documents :
          /\ input_odt = [state |-> "ok", entries |-> OtherEntries(TRUE) \o
                             <<Entry(<<"content.xml">>, Xml(d), "ZIP_DEFLATED")>>]
          /\ tag = d.tag
          /\ text = d.text
          /\ attrib = d.attrib
          /\ children = d.children
          /\ parent_map = BuildParentMap(d.children)
    /\ last = NoEdit
    /\ stale_lookup = FALSE
    /\ pc = "edit"
    /\ exc = NoExc
    /\ tempdir_exists = TRUE
    /\ fs = ExtractAll(input_odt.entries, tempdir)
    /\ output_odt = NoOutput
    /\ to_walk = {}
    /\ dirpath = tempdir
    /\ output_pdf = FALSE

PopulateBookmark(name, contents) ==
    /\ populate_bookmark(name, contents)
    /\ UNCHANGED runVars

InsertParagraphAfter ==
    /\ Cardinality(Nodes) < Cardinality(DOMAIN parent_map) + 1 + MaxInserts
    /\ insert_paragraph
    /\ UNCHANGED runVars

NextEdit ==
    \/ \E name \in Names, contents \in Contents :
          PopulateBookmark(name, contents)
    \/ InsertParagraphAfter

SpecEdit == InitEdit /\ [][NextEdit]_vars

---------------------------------------------------------------------------
(* The main program, lines 99-162. *)

InitRun(inputs) ==
    /\ input_odt \in inputs
    /\ pc = "start"
    /\ exc = NoExc
    /\ tempdir_exists = FALSE
    /\ fs = NoFiles
    /\ output_odt = NoOutput
    /\ to_walk = {}
    /\ dirpath = tempdir
    /\ output_pdf = FALSE
    /\ tag = <<>>
    /\ text = <<>>
    /\ attrib = <<>>
    /\ children = <<>>
    /\ parent_map = <<>>
    /\ last = NoEdit
    /\ stale_lookup = FALSE

Init == InitRun(InputFiles)

helperVars == <<tag, text, attrib, children, parent_map, last, stale_lookup>>

\* An exception raised inside the with block of line 99 leaves the block.
Abort(e) == exc' = e /\ pc' = "cleanup"

Goto(next) == pc' = next /\ exc' = exc

\* Line 99: the scratch directory is made.
Mkdtemp ==
    /\ pc = "start"
    /\ tempdir_exists' = TRUE
    /\ Goto("unzip")
    /\ UNCHANGED <<helperVars, fs, input_odt, output_odt, to_walk, dirpath, output_pdf>>

\* Lines 102-104.
Unzip(next) ==
    /\ pc = "unzip"
    /\ IF input_odt.state = "missing"
       THEN Abort("FileNotFoundError@102") /\ UNCHANGED fs
       ELSE IF input_odt.state = "malformed"
       THEN Abort("BadZipFile@102") /\ UNCHANGED fs
       ELSE fs' = ExtractAll(input_odt.entries, tempdir) /\ Goto(next)
    /\ UNCHANGED <<helperVars, tempdir_exists, input_odt, output_odt,
                   to_walk, dirpath, output_pdf>>

\* Line 106, Helper.__init__, lines 51-63.
Load ==
    /\ pc = "load"
    /\ LET path == Join(tempdir, "content.xml")
       IN IF path \notin DOMAIN fs
          THEN Abort("FileNotFoundError@52") /\ UNCHANGED <<treeVars, parent_map>>
          ELSE IF fs[path].bytes # "xml"
          THEN Abort("ParseError@52") /\ UNCHANGED <<treeVars, parent_map>>
          ELSE /\ tag' = fs[path].doc.tag
               /\ text' = fs[path].doc.text
               /\ attrib' = fs[path].doc.attrib
               /\ children' = fs[path].doc.children
               /\ parent_map' = BuildParentMap(fs[path].doc.children)
               /\ Goto("populate_fox")
    /\ UNCHANGED <<last, stale_lookup, tempdir_exists, fs, input_odt,
                   output_odt, to_walk, dirpath, output_pdf>>

\* After an edit: on to the next line, or out of the block.
AfterEdit(next) ==
    /\ IF last'.exc = NoExc THEN Goto(next) ELSE Abort(last'.exc)
    /\ UNCHANGED <<tempdir_exists, fs, input_odt, output_odt, to_walk,
                   dirpath, output_pdf>>

\* Line 109.
PopulateFox ==
    /\ pc = "populate_fox"
    /\ populate_bookmark("fox_type_placeholder", "quick brown")
    /\ AfterEdit("populate_dog")

\* Line 110.
PopulateDog ==
    /\ pc = "populate_dog"
    /\ populate_bookmark("dog_type_placeholder", "lazy")
    /\ AfterEdit("insert")

\* Lines 113-123.
InsertParagraph ==
    /\ pc = "insert"
    /\ insert_paragraph
    /\ AfterEdit("serialize")

\* Lines 127-128: content.xml is opened for writing and the tree written,
\* unless the file cannot be opened.
Serialize ==
    /\ pc = "serialize"
    /\ \E writable \in BOOLEAN :
          IF writable
          THEN /\ fs' = [fs EXCEPT ![Join(tempdir, "content.xml")] =
                            Xml([tag |-> tag, text |-> text,
                                 attrib |-> attrib, children |-> children])]
               /\ Goto("zip_open")
          ELSE Abort("OSError@127") /\ UNCHANGED fs
    /\ UNCHANGED <<helperVars, tempdir_exists, input_odt, output_odt,
                   to_walk, dirpath, output_pdf>>

\* Line 138: output.odt is created, empty.
ZipOpen ==
    /\ pc = "zip_open"
    /\ output_odt' = [exists |-> TRUE, open |-> TRUE, entries |-> <<>>]
    /\ Goto("zip_mimetype")
    /\ UNCHANGED <<helperVars, tempdir_exists, fs, input_odt, to_walk,
                   dirpath, output_pdf>>

\* ZipFile.write(filename, arcname, compress_type).
ZipWrite(zip, filename, arcname, compress_type) ==
    [zip EXCEPT !.entries =
        Append(@, Entry(arcname, fs[filename], compress_type))]

\* ZipFile.__exit__: the archive is closed.
ZipClosed(zip) == [zip EXCEPT !.open = FALSE]

\* Line 140: mimetype is written with the archive's default, ZIP_STORED.  A
\* missing file raises, and leaving the with block of line 138 closes the
\* archive.
ZipMimetype ==
    /\ pc = "zip_mimetype"
    /\ LET filename == Join(tempdir, "mimetype")
       IN IF filename \in DOMAIN fs
          THEN /\ output_odt' =
                      ZipWrite(output_odt, filename, <<"mimetype">>, "ZIP_STORED")
               /\ to_walk' = DOMAIN fs
               /\ dirpath' = tempdir
               /\ Goto("zip_walk")
          ELSE /\ output_odt' = ZipClosed(output_odt)
               /\ Abort("FileNotFoundError@140")
               /\ UNCHANGED <<to_walk, dirpath>>
    /\ UNCHANGED <<helperVars, tempdir_exists, fs, input_odt, output_pdf>>

\* ZipFileName without the test of line 145: every file the walk yields is
\* written, mimetype too.
ZipFileName_NoSkip(zip, dir, filename) ==
    [zip EXCEPT !.entries =
        Append(@, Entry(RelPath(Join(dir, filename), tempdir),
                        fs[Join(dir, filename)], "ZIP_DEFLATED"))]

\* Lines 145-150, for one file name of one directory.
ZipFileName(zip, dir, filename) ==
    IF filename # "mimetype"
    THEN LET absolute_filename == Join(dir, filename)
             zip_filename == RelPath(absolute_filename, tempdir)
         IN ZipWrite(zip, absolute_filename, zip_filename, "ZIP_DEFLATED")
    ELSE zip

\* Lines 143-150: os.walk yields the directories top down, and the loop
\* takes the file names of each in the order the host lists them.
ZipWalk ==
    /\ pc = "zip_walk"
    /\ \E f \in to_walk :
          /\ (\E g \in to_walk : DirName(g) = dirpath) => DirName(f) = dirpath
          /\ dirpath' = DirName(f)
          /\ output_odt' = ZipFileName(output_odt, DirName(f), BaseName(f))
          /\ to_walk' = to_walk \ {f}
    /\ Goto("zip_walk")
    /\ UNCHANGED <<helperVars, tempdir_exists, fs, input_odt, output_pdf>>

\* Line 150, end of the with block of line 138.
ZipClose ==
    /\ pc = "zip_walk"
    /\ to_walk = {}
    /\ output_odt' = ZipClosed(output_odt)
    /\ Goto("cleanup")
    /\ UNCHANGED <<helperVars, tempdir_exists, fs, input_odt, to_walk,
                   dirpath, output_pdf>>

\* Cleanup as a rmtree at the end of the block would do it: skipped when an
\* exception leaves the block.
Cleanup_OnlyOnSuccess ==
    /\ pc = "cleanup"
    /\ tempdir_exists' = (exc # NoExc)
    /\ fs' = IF exc = NoExc THEN NoFiles ELSE fs
    /\ pc' = IF exc = NoExc THEN "render" ELSE "failed"
    /\ UNCHANGED <<helperVars, exc, input_odt, output_odt, to_walk, dirpath,
                   output_pdf>>

\* TemporaryDirectory.__exit__, however the block of line 99 is left.  An
\* exception then ends the program.
Cleanup ==
    /\ pc = "cleanup"
    /\ tempdir_exists' = FALSE
    /\ fs' = NoFiles
    /\ pc' = IF exc = NoExc THEN "render" ELSE "failed"
    /\ UNCHANGED <<helperVars, exc, input_odt, output_odt, to_walk, dirpath, output_pdf>>

\* Lines 152-162, for one setting of PATH_TO_EXECUTABLE, which the program
\* reads here and nowhere else.  subprocess.call raises when the executable
\* is not there, and returns the exit status, which is dropped, otherwise.
Render(PATH_TO_EXECUTABLE) ==
    /\ pc = "render"
    /\ IF PATH_TO_EXECUTABLE = "None"
       THEN pc' = "done" /\ UNCHANGED <<exc, output_pdf>>
       ELSE IF PATH_TO_EXECUTABLE \notin Installed
       THEN /\ exc' = "FileNotFoundError@157"
            /\ pc' = "failed"
            /\ UNCHANGED output_pdf
       ELSE \E outcome \in ConverterOutcomes :
               /\ output_pdf' = (outcome = "converted")
               /\ pc' = "done"
               /\ UNCHANGED exc
    /\ UNCHANGED <<helperVars, tempdir_exists, fs, input_odt, output_odt,
                   to_walk, dirpath>>

Next ==
    \/ Mkdtemp
    \/ Unzip("load")
    \/ Load
    \/ PopulateFox
    \/ PopulateDog
    \/ InsertParagraph
    \/ Serialize
    \/ ZipOpen
    \/ ZipMimetype
    \/ ZipWalk
    \/ ZipClose
    \/ Cleanup
    \/ \E setting \in ExecutableSettings : Render(setting)

Spec == Init /\ [][Next]_vars

\* The program runs on until it ends: no step waits on anything.
FairSpec == Spec /\ WF_vars(Next)

---------------------------------------------------------------------------
(* Unzip followed by zip of the directory as it was extracted: lines       *)
(* 102-104, then lines 138-150.                                            *)

\* The member names of the archives that are unpacked and packed again, in
\* the order the archive holds them.
PackNames ==
    <<(<<"mimetype">>), (<<"content.xml">>), (<<"META-INF", "manifest.xml">>),
      (<<"Pictures", "a.png">>), (<<"Pictures", "mimetype">>)>>

Reverse(s) == [i \in DOMAIN s |-> s[Len(s) + 1 - i]]

PackBytes == {Bytes("A"), Bytes("B")}

\* An archive of the members S, each with the data b gives it, mimetype
\* stored and the others deflated.
PackArchive(order, S, b) ==
    LET names == SelectSeq(order, LAMBDA n : n \in S)
    IN [state |-> "ok",
        entries |-> [i \in DOMAIN names |->
            Entry(names[i], b[names[i]],
                  IF names[i] = <<"mimetype">> THEN "ZIP_STORED"
                  ELSE "ZIP_DEFLATED")]]

PackInputs ==
    {PackArchive(order, S, b) :
        order \in {PackNames, Reverse(PackNames)},
        S \in SUBSET Range(PackNames),
        b \in [Range(PackNames) -> PackBytes]}

InitPack == InitRun(PackInputs)

NextPack ==
    \/ Mkdtemp
    \/ Unzip("zip_open")
    \/ ZipOpen
    \/ ZipMimetype
    \/ ZipWalk
    \/ ZipClose
    \/ Cleanup

SpecPack == InitPack /\ [][NextPack]_vars

---------------------------------------------------------------------------
(* Properties of the edits, checked under SpecEdit. *)

\* The element whose child sequence holds n, read off the tree itself.
ParentInTree(n) == CHOOSE q \in Nodes : n \in Range(children[q])

\* The bookmark-start elements called name, and the one find() returns.
Named(n, name) == tag[n] = BookmarkStart /\ <<NameAttr, name>> \in attrib[n]
Markers(name) == {n \in Nodes \ {root} : Named(n, name)}
Marker(name) == FindFirst(Markers(name))

\* The place of n among its siblings, and whether a sibling follows it.
Place(n) == IndexOf(children[ParentInTree(n)], n)
HasNextSibling(n) == Place(n) < Len(children[ParentInTree(n)])
NextSibling(n) == children[ParentInTree(n)][Place(n) + 1]

\* The edit just made is a call of populate_bookmark, with the arguments
\* last.name and last.contents; it is the paragraph insertion.
Populated == last.op = "populate"
Inserted == last.op = "insert"

\* Nothing of the tree or of the parent map changes in the step.
TreeUntouched == UNCHANGED <<tag, text, attrib, children, parent_map>>

\* C3: populate_bookmark(name, contents), when a bookmark-start called name
\* exists and a sibling follows it, makes that sibling a text:span whose text
\* is contents and changes nothing else: the sibling's attributes and
\* children, every other element's tag, text, attributes and children, the
\* set of elements and the parent map are as before.
C3_PopulateChangesOnlyNextSibling ==
    [][Populated' =>
          \A marker \in {Marker(last'.name)} :
             (marker # None /\ HasNextSibling(marker)) =>
                \A sibling \in {NextSibling(marker)} :
                   /\ tag'[sibling] = "text:span"
                   /\ text'[sibling] = last'.contents
                   /\ DOMAIN tag' = Nodes
                   /\ \A n \in Nodes \ {sibling} :
                         tag'[n] = tag[n] /\ text'[n] = text[n]
                   /\ attrib' = attrib
                   /\ children' = children
                   /\ parent_map' = parent_map]_vars

\* C3's case: a populate has just retagged a sibling that has attributes
\* and children of its own.
C3_Witness ==
    /\ last.op = "populate"
    /\ last.exc = NoExc
    /\ tag[last.node] = "text:span"
    /\ text[last.node] = last.contents
    /\ attrib[last.node] # {}
    /\ children[last.node] # <<>>

\* C4: populate_bookmark(name, contents) on a tree with no bookmark-start
\* called name raises the KeyError of line 84 (the marker is not found) and
\* leaves the tree and the parent map as they were.
C4_MissingMarkerRaisesAndKeepsTree ==
    [][(Populated' /\ Markers(last'.name) = {})
          => (last'.exc = "KeyError@84" /\ TreeUntouched)]_vars

\* C4's case: a populate has just failed to find its marker in a tree that
\* holds a bookmark-start of another name with a sibling after it.
C4_Witness ==
    /\ last.op = "populate"
    /\ last.exc = "KeyError@84"
    /\ Markers(last.name) = {}
    /\ \E n \in Nodes \ {root} : IsBookmarkStart(n) /\ HasNextSibling(n)

\* C5: the paragraph insertion, when the paragraph P (the parent of the
\* first bookmark-start) has a recorded parent, adds exactly one element, a
\* text:p with P's attributes, the given text and no children, right after P
\* in the child sequence of P's parent; the siblings before P and P itself
\* keep their places, those after P follow the new element in their old
\* order, and no other element changes.
C5_InsertsRightAfterParagraph ==
    [][Inserted' =>
          \A bookmark \in {FindFirst({n \in Nodes : IsBookmarkStart(n)})} :
             (/\ bookmark \in DOMAIN parent_map
              /\ parent_map[bookmark] \in DOMAIN parent_map) =>
                \A P \in {parent_map[bookmark]} :
                \A parent \in {ParentInTree(P)} :
                \A place \in {Place(P)} :
                \A new \in {Max(Nodes) + 1} :
                   /\ DOMAIN tag' = Nodes \cup {new}
                   /\ tag'[new] = "text:p"
                   /\ text'[new] = ParagraphText
                   /\ attrib'[new] = attrib[P]
                   /\ children'[new] = <<>>
                   /\ Len(children'[parent]) = Len(children[parent]) + 1
                   /\ \A j \in 1..place :
                         children'[parent][j] = children[parent][j]
                   /\ children'[parent][place + 1] = new
                   /\ \A j \in (place + 1)..Len(children[parent]) :
                         children'[parent][j + 1] = children[parent][j]
                   /\ \A n \in Nodes \ {parent} : children'[n] = children[n]
                   /\ \A n \in Nodes :
                         /\ tag'[n] = tag[n]
                         /\ text'[n] = text[n]
                         /\ attrib'[n] = attrib[n]]_vars

\* C5's case: a paragraph has just been inserted between the paragraph and
\* a sibling that followed it.
C5_Witness ==
    /\ last.op = "insert"
    /\ last.exc = NoExc
    /\ tag[last.node] = "text:p"
    /\ attrib[last.node] # {}
    /\ Place(last.node) > 1
    /\ HasNextSibling(last.node)

\* C9: populate_bookmark(name, contents) on a bookmark-start that is the
\* last child of its parent raises the IndexError of line 90 (no sibling
\* follows) and changes no element.
C9_LastChildRaisesAndKeepsTree ==
    [][Populated' =>
          \A marker \in {Marker(last'.name)} :
             (marker # None /\ ~HasNextSibling(marker))
                => (last'.exc = "IndexError@90" /\ TreeUntouched)]_vars

\* C9's case: a populate has just failed on a marker that is the last of
\* several children.
C9_Witness ==
    /\ last.op = "populate"
    /\ last.exc = "IndexError@90"
    /\ Markers(last.name) # {}
    /\ ~HasNextSibling(Marker(last.name))
    /\ Place(Marker(last.name)) > 1

---------------------------------------------------------------------------
(* Properties of the main program, checked under Spec and FairSpec. *)

\* The data of the member of input.odt called name: the last one of that
\* name.
InputHas(name) ==
    \E i \in DOMAIN input_odt.entries : input_odt.entries[i].name = name
InputData(name) ==
    input_odt.entries[Max({i \in DOMAIN input_odt.entries :
                              input_odt.entries[i].name = name})].data

\* The document content.xml held when it was loaded.
InputDoc == InputData(<<"content.xml">>).doc

\* A Helper has been made.
Loaded == Nodes # {}

\* The parent map holds exactly the elements the document had when it was
\* loaded, the root apart, each with the parent it had then and still has;
\* an element inserted since has no entry.
ParentMapIsSnapshot ==
    /\ DOMAIN parent_map = DOMAIN InputDoc.tag \ {root}
    /\ \A c \in DOMAIN parent_map :
          /\ c \in Range(InputDoc.children[parent_map[c]])
          /\ c \in Range(children[parent_map[c]])
    /\ (last.op = "insert" /\ last.exc = NoExc)
          => (last.node \in Nodes /\ last.node \notin DOMAIN parent_map)

\* C10: once built, the parent map is never updated: through the edits of
\* the run it maps exactly the elements present at load to the parents they
\* had at load, the inserted paragraph has no entry, and the run reads the
\* map only before its one insertion, so every parent it reads is the
\* element's current parent.
C10_ParentMapIsStaticSnapshot ==
    Loaded => (ParentMapIsSnapshot /\ ~stale_lookup)

\* C10's case: the run has populated, inserted the paragraph and ended.
C10_Witness ==
    /\ pc = "done"
    /\ last.op = "insert"
    /\ last.exc = NoExc
    /\ Cardinality(Nodes) = Cardinality(DOMAIN parent_map) + 2

\* C6 as claimed: a run that an exception of the with block ends has
\* created no output.odt.
C6_FailureLeavesNoOutput ==
    (pc = "failed" /\ exc # "FileNotFoundError@157") => ~output_odt.exists

\* C7: however the with block of line 99 is left, the scratch directory is
\* removed with all its files, and it is gone before the conversion step is
\* reached.
C7_ScratchAlwaysRemoved ==
    /\ tempdir_exists ~> (~tempdir_exists /\ fs = NoFiles)
    /\ [](pc \in {"render", "done", "failed"}
            => (~tempdir_exists /\ fs = NoFiles))

\* C7's case: a run that failed while writing the archive has ended with
\* the scratch directory removed.
C7_Witness ==
    /\ pc = "failed"
    /\ exc = "FileNotFoundError@140"
    /\ ~tempdir_exists

\* C8 as claimed: once the archive is written and the conversion step is
\* reached, the run ends normally whatever the converter does.
C8_RenderNeverFails == [][pc = "render" => pc' = "done"]_vars

---------------------------------------------------------------------------
(* Properties of unzip followed by zip, checked under SpecPack. *)

\* The archive has been written to the end without an exception.
Packed == pc = "render"

\* C1: when the directory holds mimetype at its root, the zip block writes
\* it first and stored, and every entry after it is deflated and is not
\* mimetype: no entry ever precedes mimetype.
C1_MimetypeFirstAndStored ==
    LET out == output_odt.entries
    IN /\ (InputHas(<<"mimetype">>) /\ pc \in {"zip_walk", "cleanup", "render"})
             => (out # <<>> /\ exc = NoExc)
       /\ out # <<>> =>
             /\ out[1] = Entry(<<"mimetype">>, InputData(<<"mimetype">>),
                               "ZIP_STORED")
             /\ \A i \in 2..Len(out) :
                   /\ out[i].name # <<"mimetype">>
                   /\ out[i].compress_type = "ZIP_DEFLATED"

\* C1's case: an archive of several files, one of them a mimetype in a
\* subdirectory, has been packed.
C1_Witness ==
    /\ Packed
    /\ InputHas(<<"Pictures", "mimetype">>)
    /\ Len(output_odt.entries) >= 3

\* C2 as claimed: unzip then zip gives an archive with the member names of
\* the input, each once and with the input's bytes.
C2_RoundTrip ==
    Packed =>
        LET out == output_odt.entries
        IN /\ {out[i].name : i \in DOMAIN out}
                 = {input_odt.entries[i].name : i \in DOMAIN input_odt.entries}
           /\ \A i, j \in DOMAIN out : out[i].name = out[j].name => i = j
           /\ \A i \in DOMAIN out : out[i].data = InputData(out[i].name)

=============================================================================
